---- MODULE Spec2Model ----
(***************************************************************************)
(* Model of github.com/denkhaus/es:                                        *)
(*   - core.ElasticClientImpl.EnumerateItems  (scroll enumeration loop)    *)
(*   - core.ElasticClientImpl.GetIndices      (index-name discovery)       *)
(*   - es.Get                                 (process-wide client cache)  *)
(* Each operation has its own specification (SpecEnum, SpecIdx, SpecGet);  *)
(* the variables of the other operations stay at their initial values.     *)
(***************************************************************************)
EXTENDS Integers, Sequences, FiniteSets, TLC

\* ---------------------------------------------------------------- bounds
MaxPages == 3       \* pages with hits the server hands out in one enumeration
MaxPage == 2        \* largest number of hits in one page
NumIds == 2         \* distinct scroll ids the server may hand out

NoId == 0           \* the empty scroll id ""
Ids == 1..NumIds

\* ------------------------------------------------------------- variables
VARIABLES
    \* EnumerateItems
    pc,             \* position in EnumerateItems
    ctxDone,        \* ctx.Done() is closed
    errs,           \* errs.Errors, as the sequence of Wrap tags
    scrollID,       \* local variable scrollID
    svcId,          \* the scroll id held inside the ScrollService svc
    nCurrentItem,   \* local variable nCurrentItem
    page,           \* number of pages with hits received so far
    size,           \* nBatchItems of the current page
    idx,            \* range index into the current page
    calls,          \* history: invocations of onItem
    reqs,           \* history: requests sent to the server
    ret,            \* the value EnumerateItems returns
    cancelAt,       \* history: where the call was when ctx was cancelled
    \* GetIndices
    gpc, prefixes, catalog, reqOk, lines, gi, result, gret,
    \* Get
    gpcs, clientInstance, constructed, local, got, succeeded, reassigned

enumVars == <<pc, ctxDone, errs, scrollID, svcId, nCurrentItem, page, size,
              idx, calls, reqs, ret, cancelAt>>
idxVars == <<gpc, prefixes, catalog, reqOk, lines, gi, result, gret>>
getVars == <<gpcs, clientInstance, constructed, local, got, succeeded, reassigned>>
vars == <<enumVars, idxVars, getVars>>

\* =========================================================================
\*  EnumerateItems                                     src/core/client.go
\* =========================================================================

\* The scroll service is github.com/olivere/elastic/v7 v7.0.32 (go.mod).
\* What EnumerateItems relies on, and what the actions below take from it:
\*   svc.Do    stores the scroll id of every answer in svc; an answer without
\*             hits comes back as io.EOF, so a page always has a hit;
\*   svc.Clear sends a release for the id stored in svc, nothing if it is "";
\*   a request made with a cancelled ctx fails.
\* The server may keep the scroll id from page to page or change it.

NoRet == [kind |-> "none", errors |-> <<>>]

InitEnum ==
    /\ pc = "loop"
    /\ ctxDone = FALSE
    /\ errs = <<>>
    /\ scrollID = NoId
    /\ svcId = NoId
    /\ nCurrentItem = 0
    /\ page = 0
    /\ size = 0
    /\ idx = 0
    /\ calls = <<>>
    /\ reqs = <<>>
    /\ ret = NoRet
    /\ cancelAt = [pc |-> "none", page |-> 0, fetches |-> 0, calls |-> 0]

Fetches == Len(SelectSeq(reqs, LAMBDA r : r.kind = "fetch"))

\* ids whose release the server has acknowledged
Released == {reqs[i].id : i \in {j \in 1..Len(reqs) : reqs[j].kind = "release" /\ reqs[j].ok}}

\* for len(errs.Errors) == 0
LoopContinues_Mut(e) == TRUE
LoopContinues(e) == Len(e) = 0

\* if scrollID != "" { svc = svc.ScrollId(scrollID) }
SvcScrollId(sid, cur) == IF sid # NoId THEN sid ELSE cur

\* nCurrentItem++ ahead of the call: the value handed to onItem
OrdinalPassed_Mut(n) == n
OrdinalPassed(n) == n + 1

\* commit := idx == nBatchItems-1
Commit_Mut(i, nBatchItems) == i = 0
Commit(i, nBatchItems) == i = nBatchItems - 1

\* errs.ErrorOrNil()
ErrorOrNil(e) == IF Len(e) = 0 THEN [kind |-> "nil", errors |-> <<>>]
                 ELSE [kind |-> "multi", errors |-> e]

\* A request made with a cancelled context fails; a release of an id the
\* server already dropped fails; anything else may succeed or fail.
ReleaseOutcomes(id) == IF ctxDone \/ id \in Released THEN {FALSE} ELSE BOOLEAN

\* The caller (or a deadline) cancels ctx, at any moment of the call.
Cancel ==
    /\ pc # "done"
    /\ ~ctxDone
    /\ ctxDone' = TRUE
    /\ cancelAt' = [pc |-> pc, page |-> page, fetches |-> Fetches, calls |-> Len(calls)]
    /\ UNCHANGED <<pc, errs, scrollID, svcId, nCurrentItem, page, size, idx,
                   calls, reqs, ret>>
    /\ UNCHANGED <<idxVars, getVars>>

\* svc.Do(ctx) answers with a page of hits: err == nil
DoPage ==
    /\ pc = "loop"
    /\ LoopContinues(errs)
    /\ ~ctxDone
    /\ page < MaxPages
    /\ \E id \in Ids, n \in 1..MaxPage :
        /\ reqs' = Append(reqs, [kind |-> "fetch", by |-> "Do",
                                 id |-> SvcScrollId(scrollID, svcId), ok |-> TRUE])
        /\ svcId' = id
        /\ scrollID' = id
        /\ size' = n
    /\ page' = page + 1
    /\ idx' = 0
    /\ pc' = "items"
    /\ UNCHANGED <<ctxDone, errs, nCurrentItem, calls, ret, cancelAt>>
    /\ UNCHANGED <<idxVars, getVars>>

\* svc.Do(ctx) answers with no hits: err == io.EOF, nothing recorded, break
DoEOF ==
    /\ pc = "loop"
    /\ LoopContinues(errs)
    /\ ~ctxDone
    /\ \E id \in Ids :
        /\ reqs' = Append(reqs, [kind |-> "fetch", by |-> "Do",
                                 id |-> SvcScrollId(scrollID, svcId), ok |-> TRUE])
        /\ svcId' = id
    /\ pc' = "clear"
    /\ UNCHANGED <<ctxDone, errs, scrollID, nCurrentItem, page, size, idx,
                   calls, ret, cancelAt>>
    /\ UNCHANGED <<idxVars, getVars>>

\* svc.Do(ctx) fails: errs gets Wrap(err, "Do"), break
DoError ==
    /\ pc = "loop"
    /\ LoopContinues(errs)
    /\ reqs' = Append(reqs, [kind |-> "fetch", by |-> "Do",
                             id |-> SvcScrollId(scrollID, svcId), ok |-> FALSE])
    /\ svcId' = SvcScrollId(scrollID, svcId)
    /\ errs' = Append(errs, "Do")
    /\ pc' = "clear"
    /\ UNCHANGED <<ctxDone, scrollID, nCurrentItem, page, size, idx, calls,
                   ret, cancelAt>>
    /\ UNCHANGED <<idxVars, getVars>>

\* the loop condition fails: an error was recorded in the last pass
LoopExit ==
    /\ pc = "loop"
    /\ ~LoopContinues(errs)
    /\ pc' = "clear"
    /\ UNCHANGED <<ctxDone, errs, scrollID, svcId, nCurrentItem, page, size,
                   idx, calls, reqs, ret, cancelAt>>
    /\ UNCHANGED <<idxVars, getVars>>

\* one pass of "for idx, hit := range hits"
OnItem ==
    /\ pc = "items"
    /\ idx < size
    /\ \E ok \in BOOLEAN :
        /\ calls' = Append(calls, [page |-> page, idx |-> idx, size |-> size,
                                   ordinal |-> OrdinalPassed(nCurrentItem),
                                   commit |-> Commit(idx, size),
                                   ok |-> ok, fetches |-> Fetches])
        /\ errs' = IF ok THEN errs ELSE Append(errs, "onItem")
        /\ IF ok /\ idx + 1 < size
             THEN /\ idx' = idx + 1
                  /\ pc' = "items"
             ELSE /\ idx' = idx
                  /\ pc' = "select"
    /\ nCurrentItem' = nCurrentItem + 1
    /\ UNCHANGED <<ctxDone, scrollID, svcId, page, size, reqs, ret, cancelAt>>
    /\ UNCHANGED <<idxVars, getVars>>

\* case <-ctx.Done(): is the channel closed when the select runs
SelectDone_Mut(done) == FALSE
SelectDone(done) == done

\* select { default: ; case <-ctx.Done(): return ctx.Err() }
Select ==
    /\ pc = "select"
    /\ IF SelectDone(ctxDone)
         THEN /\ ret' = [kind |-> "ctx", errors |-> <<>>]
              /\ pc' = "defer"
         ELSE /\ ret' = ret
              /\ pc' = "loop"
    /\ UNCHANGED <<ctxDone, errs, scrollID, svcId, nCurrentItem, page, size,
                   idx, calls, reqs, cancelAt>>
    /\ UNCHANGED <<idxVars, getVars>>

\* c.ClearScroll(ctx, scrollID), then return errs.ErrorOrNil()
ClearScroll ==
    /\ pc = "clear"
    /\ IF scrollID = NoId
         THEN /\ reqs' = reqs
              /\ errs' = errs
         ELSE \E ok \in ReleaseOutcomes(scrollID) :
              /\ reqs' = Append(reqs, [kind |-> "release", by |-> "ClearScroll",
                                       id |-> scrollID, ok |-> ok])
              /\ errs' = IF ok THEN errs ELSE Append(errs, "ClearScroll")
    /\ ret' = ErrorOrNil(errs')
    /\ pc' = "defer"
    /\ UNCHANGED <<ctxDone, scrollID, svcId, nCurrentItem, page, size, idx,
                   calls, cancelAt>>
    /\ UNCHANGED <<idxVars, getVars>>

\* defer svc.Clear(ctx): releases the id held by svc, its error is dropped
DeferClear_Mut ==
    /\ pc = "defer"
    /\ pc' = "done"
    /\ UNCHANGED <<ctxDone, errs, scrollID, svcId, nCurrentItem, page, size,
                   idx, calls, reqs, ret, cancelAt>>
    /\ UNCHANGED <<idxVars, getVars>>
DeferClear ==
    /\ pc = "defer"
    /\ IF svcId = NoId
         THEN reqs' = reqs
         ELSE \E ok \in ReleaseOutcomes(svcId) :
              reqs' = Append(reqs, [kind |-> "release", by |-> "Clear",
                                    id |-> svcId, ok |-> ok])
    /\ pc' = "done"
    /\ UNCHANGED <<ctxDone, errs, scrollID, svcId, nCurrentItem, page, size,
                   idx, calls, ret, cancelAt>>
    /\ UNCHANGED <<idxVars, getVars>>

NextEnum ==
    \/ Cancel
    \/ DoPage
    \/ DoEOF
    \/ DoError
    \/ LoopExit
    \/ OnItem
    \/ Select
    \/ ClearScroll
    \/ DeferClear

IdleEnum ==
    /\ pc = "idle"
    /\ ctxDone = FALSE
    /\ errs = <<>>
    /\ scrollID = NoId
    /\ svcId = NoId
    /\ nCurrentItem = 0
    /\ page = 0
    /\ size = 0
    /\ idx = 0
    /\ calls = <<>>
    /\ reqs = <<>>
    /\ ret = NoRet
    /\ cancelAt = [pc |-> "none", page |-> 0, fetches |-> 0, calls |-> 0]

\* =========================================================================
\*  GetIndices                                         src/core/client.go
\* =========================================================================

MaxPrefixes == 2    \* longest list of prefixes passed in
MaxLines == 2       \* longest catalog the server answers with

BadPrefix == "("    \* a prefix with which the pattern does not compile
PrefixSet == {"alpha", "beta", BadPrefix}
Bases == {"alpha", "gamma"}
Digits == {"0", "1"}
Suffixes == Digits \cup {"old"}
\* a catalog line holding the index name <base>-<suffix>
Lines == [base : Bases, suffix : Suffixes]

BSeq(S, n) == UNION {[1..k -> S] : k \in 0..n}

\* regexp.Compile("\\s" + prefix + "-(\\d)*\\s") succeeds
Compiles(prefix) == prefix # BadPrefix

\* r.FindString(line) is not empty: the line holds " <prefix>-<digits> "
Matches(prefix, line) == line.base = prefix /\ line.suffix \in Digits

\* strings.TrimSpace(match): the index name
IndexName(line) == <<line.base, line.suffix>>

RECURSIVE ScanLines(_, _, _)
\* for _, line := range lines { ... result[prefix] = append(result[prefix], ...) }
ScanLines(prefix, ls, res) ==
    IF ls = <<>> THEN res
    ELSE LET l == Head(ls)
             r == IF Matches(prefix, l)
                    THEN IF prefix \in DOMAIN res
                           THEN [res EXCEPT ![prefix] = Append(@, IndexName(l))]
                           ELSE (prefix :> <<IndexName(l)>>) @@ res
                    ELSE res
         IN ScanLines(prefix, Tail(ls), r)

EmptyMap == [x \in {} |-> <<>>]
NoGRet == [set |-> FALSE, result |-> EmptyMap, isNil |-> FALSE, err |-> "nil"]

InitIdx ==
    /\ gpc = "request"
    /\ prefixes \in BSeq(PrefixSet, MaxPrefixes)
    /\ catalog \in BSeq(Lines, MaxLines)
    /\ reqOk = "none"
    /\ lines = <<>>
    /\ gi = 1
    /\ result = EmptyMap
    /\ gret = NoGRet

IdleIdx ==
    /\ gpc = "idle"
    /\ prefixes = <<>>
    /\ catalog = <<>>
    /\ reqOk = "none"
    /\ lines = <<>>
    /\ gi = 1
    /\ result = EmptyMap
    /\ gret = NoGRet

\* http.NewRequest fails: return nil, Wrap(err, "NewRequest")
NewRequestError ==
    /\ gpc = "request"
    /\ reqOk' = "badurl"
    /\ gret' = [set |-> TRUE, result |-> EmptyMap, isNil |-> TRUE, err |-> "NewRequest"]
    /\ gpc' = "done"
    /\ UNCHANGED <<prefixes, catalog, lines, gi, result>>
    /\ UNCHANGED <<enumVars, getVars>>

\* client.Do(req) fails: return result, nil
CatalogFail ==
    /\ gpc = "request"
    /\ reqOk' = "fail"
    /\ gret' = [set |-> TRUE, result |-> result, isNil |-> FALSE, err |-> "nil"]
    /\ gpc' = "done"
    /\ UNCHANGED <<prefixes, catalog, lines, gi, result>>
    /\ UNCHANGED <<enumVars, getVars>>

\* client.Do(req) succeeds; the scanner reads the body line by line
CatalogOk ==
    /\ gpc = "request"
    /\ reqOk' = "ok"
    /\ lines' = catalog
    /\ gpc' = "prefix"
    /\ UNCHANGED <<prefixes, catalog, gi, result, gret>>
    /\ UNCHANGED <<enumVars, getVars>>

\* one pass of "for _, prefix := range prefixes" with a pattern that compiles
PrefixScan ==
    /\ gpc = "prefix"
    /\ gi <= Len(prefixes)
    /\ Compiles(prefixes[gi])
    /\ result' = ScanLines(prefixes[gi], lines, result)
    /\ gi' = gi + 1
    /\ UNCHANGED <<gpc, prefixes, catalog, reqOk, lines, gret>>
    /\ UNCHANGED <<enumVars, getVars>>

\* regexp.Compile fails: return result, nil
PrefixBad ==
    /\ gpc = "prefix"
    /\ gi <= Len(prefixes)
    /\ ~Compiles(prefixes[gi])
    /\ gret' = [set |-> TRUE, result |-> result, isNil |-> FALSE, err |-> "nil"]
    /\ gpc' = "done"
    /\ UNCHANGED <<prefixes, catalog, reqOk, lines, gi, result>>
    /\ UNCHANGED <<enumVars, getVars>>

\* the range is exhausted: return result, nil
GetIndicesReturn ==
    /\ gpc = "prefix"
    /\ gi > Len(prefixes)
    /\ gret' = [set |-> TRUE, result |-> result, isNil |-> FALSE, err |-> "nil"]
    /\ gpc' = "done"
    /\ UNCHANGED <<prefixes, catalog, reqOk, lines, gi, result>>
    /\ UNCHANGED <<enumVars, getVars>>

NextIdx ==
    \/ NewRequestError
    \/ CatalogFail
    \/ CatalogOk
    \/ PrefixScan
    \/ PrefixBad
    \/ GetIndicesReturn

\* =========================================================================
\*  Get                                                 package es
\* =========================================================================

NumGoroutines == 2  \* goroutines calling Get concurrently
Goroutines == 1..NumGoroutines

Nil == 0            \* the nil client
GetErr == -1        \* Get returned (nil, err)
NotYet == -2        \* Get has not returned

InitGet ==
    /\ gpcs = [g \in Goroutines |-> "check"]
    /\ clientInstance = Nil
    /\ constructed = 0
    /\ local = [g \in Goroutines |-> Nil]
    /\ got = [g \in Goroutines |-> NotYet]
    /\ succeeded = FALSE
    /\ reassigned = FALSE

IdleGet ==
    /\ gpcs = [g \in Goroutines |-> "idle"]
    /\ clientInstance = Nil
    /\ constructed = 0
    /\ local = [g \in Goroutines |-> Nil]
    /\ got = [g \in Goroutines |-> NotYet]
    /\ succeeded = FALSE
    /\ reassigned = FALSE

\* if clientInstance == nil
GetCheck(g) ==
    /\ gpcs[g] = "check"
    /\ gpcs' = [gpcs EXCEPT ![g] = IF clientInstance = Nil THEN "new" ELSE "return"]
    /\ UNCHANGED <<clientInstance, constructed, local, got, succeeded, reassigned>>
    /\ UNCHANGED <<enumVars, idxVars>>

\* client, err := core.NewClient(...)
GetNewClient(g) ==
    /\ gpcs[g] = "new"
    /\ \E ok \in BOOLEAN :
        IF ok
          THEN /\ constructed' = constructed + 1
               /\ local' = [local EXCEPT ![g] = constructed + 1]
               /\ gpcs' = [gpcs EXCEPT ![g] = "ping"]
               /\ got' = got
          ELSE /\ got' = [got EXCEPT ![g] = GetErr]
               /\ gpcs' = [gpcs EXCEPT ![g] = "done"]
               /\ UNCHANGED <<constructed, local>>
    /\ UNCHANGED <<clientInstance, succeeded, reassigned>>
    /\ UNCHANGED <<enumVars, idxVars>>

\* info, code, err := client.Ping().Do(ctx)
GetPing(g) ==
    /\ gpcs[g] = "ping"
    /\ \E ok \in BOOLEAN :
        IF ok
          THEN /\ gpcs' = [gpcs EXCEPT ![g] = "assign"]
               /\ got' = got
          ELSE /\ got' = [got EXCEPT ![g] = GetErr]
               /\ gpcs' = [gpcs EXCEPT ![g] = "done"]
    /\ UNCHANGED <<clientInstance, constructed, local, succeeded, reassigned>>
    /\ UNCHANGED <<enumVars, idxVars>>

\* clientInstance = client
GetAssign(g) ==
    /\ gpcs[g] = "assign"
    /\ clientInstance' = local[g]
    /\ reassigned' = (reassigned \/ succeeded)
    /\ gpcs' = [gpcs EXCEPT ![g] = "return"]
    /\ UNCHANGED <<constructed, local, got, succeeded>>
    /\ UNCHANGED <<enumVars, idxVars>>

\* return clientInstance, nil
GetReturn(g) ==
    /\ gpcs[g] = "return"
    /\ got' = [got EXCEPT ![g] = clientInstance]
    /\ succeeded' = TRUE
    /\ gpcs' = [gpcs EXCEPT ![g] = "done"]
    /\ UNCHANGED <<clientInstance, constructed, local, reassigned>>
    /\ UNCHANGED <<enumVars, idxVars>>

NextGet ==
    \/ \E g \in Goroutines : GetCheck(g)
    \/ \E g \in Goroutines : GetNewClient(g)
    \/ \E g \in Goroutines : GetPing(g)
    \/ \E g \in Goroutines : GetAssign(g)
    \/ \E g \in Goroutines : GetReturn(g)

\* =========================================================================
\*  Specifications
\* =========================================================================

\* one call of EnumerateItems, cancelled or not
EnumStart == InitEnum /\ IdleIdx /\ IdleGet
SpecEnum == EnumStart /\ [][NextEnum]_vars

\* one call of GetIndices, over every list of prefixes and every catalog
IdxStart == IdleEnum /\ InitIdx /\ IdleGet
SpecIdx == IdxStart /\ [][NextIdx]_vars

\* concurrent calls of Get in a fresh process
GetStart == IdleEnum /\ IdleIdx /\ InitGet
SpecGet == GetStart /\ [][NextGet]_vars

\* =========================================================================
\*  Properties
\* =========================================================================

Range(f) == {f[x] : x \in DOMAIN f}
CallsOfPage(p) == {i \in 1..Len(calls) : calls[i].page = p}
FailedReleases == {i \in 1..Len(reqs) : reqs[i].kind = "release" /\ ~reqs[i].ok}
Count(sq, x) == Cardinality({i \in 1..Len(sq) : sq[i] = x})
\* the inner loop over page p is over
PageOver(p) == p < page \/ (p = page /\ pc # "items")

\* what a cancellation must lead to: no fetch and no onItem after it, and
\* the call returns ctx.Err()
HaltedByCancel ==
    /\ Fetches = cancelAt.fetches
    /\ Len(calls) = cancelAt.calls
    /\ (pc = "done" => ret.kind = "ctx")

\* C1 (as stated): when ctx is cancelled after page N was handed to the
\* callback and before page N+1 is fetched, no further page fetch is issued,
\* onItem is not invoked again, and the call returns ctx.Err().
C1_CancelBetweenPages ==
    (cancelAt.pc \in {"select", "loop"} /\ cancelAt.page >= 1) => HaltedByCancel

\* C1 (amended): when ctx is cancelled after page N was handed to the
\* callback and before the cancellation check that follows the page runs,
\* no further page fetch is issued, onItem is not invoked again, and the call
\* returns ctx.Err().
C1_CancelBeforeCheck ==
    cancelAt.pc = "select" => HaltedByCancel

C1_Witness ==
    /\ pc = "done"
    /\ cancelAt.pc = "select"
    /\ cancelAt.page = 2
    /\ ret.kind = "ctx"

\* C2: when EnumerateItems has returned and some fetch had yielded a cursor
\* id, a release request for the current cursor id (the one in scrollID and
\* the one held by the scroll service) has been issued.
C2_ReleaseAttempted ==
    pc = "done" =>
        \A id \in ({scrollID, svcId} \ {NoId}) :
            \E i \in 1..Len(reqs) : reqs[i].kind = "release" /\ reqs[i].id = id

C2_Witness ==
    /\ pc = "done"
    /\ ret.kind = "ctx"
    /\ svcId # NoId
    /\ \E i \in 1..Len(reqs) : reqs[i].kind = "release" /\ reqs[i].id = svcId

\* C3: every failed cursor release made on exit is contained in the returned
\* error, next to the callback or transport error recorded before it.
C3_ReleaseFailureReturned ==
    (pc = "done" /\ FailedReleases # {}) =>
        /\ ret.kind = "multi"
        /\ Count(ret.errors, "ClearScroll") = Cardinality(FailedReleases)
        /\ \A t \in {"Do", "onItem"} : t \in Range(errs) => t \in Range(ret.errors)

\* C4: once a cursor id has been released, no further request (page fetch or
\* release) is issued with that id.
C4_NoRequestAfterRelease ==
    \A i, j \in 1..Len(reqs) :
        (i < j /\ reqs[i].kind = "release" /\ reqs[i].ok) => reqs[j].id # reqs[i].id

\* C5: after the first onItem that returns an error, onItem is not invoked
\* again, no further page fetch is issued, and the enumeration ends with the
\* callback error recorded.
C5_StopOnCallbackError ==
    \A i \in 1..Len(calls) :
        ~calls[i].ok =>
            /\ i = Len(calls)
            /\ Fetches = calls[i].fetches
            /\ "onItem" \in Range(errs)
            /\ (ret.kind = "multi" => "onItem" \in Range(ret.errors))

C5_Witness ==
    /\ pc = "done"
    /\ ret.kind = "multi"
    /\ \E i \in 1..Len(calls) :
        ~calls[i].ok /\ calls[i].idx + 1 < calls[i].size /\ calls[i].page = 2

CommitOnFinalOnly(p) ==
    \A i \in CallsOfPage(p) : calls[i].commit <=> (calls[i].idx = calls[i].size - 1)
CommitsOf(p) == {i \in CallsOfPage(p) : calls[i].commit}
FinalReached(p) == \E i \in CallsOfPage(p) : calls[i].idx = calls[i].size - 1

\* C6 (as stated): for every page fetched the commit flag is true exactly
\* once, on the invocation for the final item, and false on all others.
C6_CommitOncePerPage ==
    \A p \in 1..page :
        PageOver(p) => (Cardinality(CommitsOf(p)) = 1 /\ CommitOnFinalOnly(p))

\* C6 (amended): for every page fetched the commit flag is true on the
\* invocation for the final item of the page and on no other; it is true
\* exactly once for a page whose final item is handed to onItem, and never
\* for a page that a callback error cut short before its final item.
C6_CommitOnFinalItem ==
    \A p \in 1..page :
        /\ CommitOnFinalOnly(p)
        /\ PageOver(p) =>
            /\ Cardinality(CommitsOf(p)) = (IF FinalReached(p) THEN 1 ELSE 0)
            /\ ~FinalReached(p) => \E i \in CallsOfPage(p) : ~calls[i].ok

C6_Witness ==
    /\ pc = "done"
    /\ page = 2
    /\ Cardinality(CallsOfPage(1)) = 2
    /\ Cardinality(CommitsOf(1)) = 1
    /\ ~FinalReached(2)

\* C7: the k-th invocation of onItem receives ordinal k, over all pages, and
\* the ordinal counter equals the number of items handed to onItem so far.
C7_OrdinalCountsItems ==
    /\ nCurrentItem = Len(calls)
    /\ \A k \in 1..Len(calls) : calls[k].ordinal = k

C7_Witness ==
    /\ Len(calls) >= 3
    /\ calls[Len(calls)].page = 2
    /\ calls[Len(calls)].ordinal = Len(calls)

\* C8: a prefix whose pattern does not compile yields no matches for that
\* prefix only; every other prefix of the list, also one listed after it,
\* gets all its matching index names in the returned mapping, and the error
\* is nil.
C8_BadPrefixOnlyLosesItself ==
    (gpc = "done" /\ reqOk = "ok") =>
        /\ gret.err = "nil"
        /\ \A k \in 1..Len(prefixes) :
            IF Compiles(prefixes[k])
              THEN \A n \in 1..Len(lines) :
                     Matches(prefixes[k], lines[n]) =>
                        /\ prefixes[k] \in DOMAIN gret.result
                        /\ IndexName(lines[n]) \in Range(gret.result[prefixes[k]])
              ELSE prefixes[k] \notin DOMAIN gret.result

\* C9: every failure during EnumerateItems or GetIndices (catalog request,
\* page fetch, callback, cursor release) is reflected in the returned error.
C9_FailuresReturned ==
    /\ (gpc = "done" /\ reqOk \in {"fail", "badurl"}) => gret.err # "nil"
    /\ pc = "done" =>
        /\ (\E i \in 1..Len(reqs) : reqs[i].kind = "fetch" /\ ~reqs[i].ok)
              => "Do" \in Range(ret.errors)
        /\ (\E i \in 1..Len(calls) : ~calls[i].ok) => "onItem" \in Range(ret.errors)
        /\ FailedReleases # {} => "ClearScroll" \in Range(ret.errors)

\* C10: under any interleaving of concurrent Get calls the client is
\* constructed at most once, clientInstance is not reassigned after a Get
\* has succeeded, and all successful Get calls return the same instance.
C10_SingleClient ==
    /\ constructed <= 1
    /\ ~reassigned
    /\ \A g, h \in Goroutines : (got[g] > Nil /\ got[h] > Nil) => got[g] = got[h]

====
